---- MODULE Spec2Model ----
(***************************************************************************)
(* Emotion Detection API (backend/app.py): the text normalizer, the        *)
(* predictor, the batch and conversation endpoints and the in-memory       *)
(* prediction history, as a state machine.                                 *)
(*                                                                         *)
(* Texts are TLA+ strings handled character by character.  A JSON value    *)
(* that reaches the code is a record [type, val]; type "str" carries the   *)
(* string, the other types stand for values that are not str in Python.    *)
(* Probabilities are integers in millionths; percentages rounded to two    *)
(* decimals are integers in hundredths of a percent (6000 is 60.00).       *)
(***************************************************************************)
EXTENDS Integers, Sequences, FiniteSets, TLC

VARIABLES
    nlp_init,            \* which branch of the NLP initialisation built stop_words
    artifact,            \* the unpickled vectorizer + model (predictor.model, .vectorizer)
    prediction_history,  \* module global prediction_history (app.py 246)
    drawn,               \* epoch: clear_history calls so far; seq: uuid4()/utcnow()
                         \* values drawn since the last of them
    pc,                  \* per request thread: where it stands in predict_emotion
    local,               \* per request thread: its history_entry
    request,             \* the last request handled: endpoint and input
    response,            \* the last response produced
    calls                \* predictor.predict and vectorizer calls made by the last request

vars == <<nlp_init, artifact, prediction_history, drawn,
          pc, local, request, response, calls>>

-----------------------------------------------------------------------------
(* JSON values *)

JStr(s) == [type |-> "str", val |-> s]
JNum(s) == [type |-> "number", val |-> s]
JNull == [type |-> "null", val |-> ""]
JBool(b) == [type |-> "bool", val |-> IF b THEN "true" ELSE "false"]

\* isinstance(text, str)
IsStr(v) == v.type = "str"

-----------------------------------------------------------------------------
(* The values the specifications draw their requests from *)

Absent == [type |-> "absent", val |-> ""]

PredictInputs ==
    {JStr("I am NOT happy today"),
     JStr("No, I am happy today!"),
     JStr("http://x.com #tag @mention !!! 123"),
     JStr(""),
     JStr("Oh no"),
     JNum("42"),
     JNull}

\* preprocess_text is also called on these
PreprocessInputs ==
    PredictInputs \cup
    {JStr("never   nothing\tnobody"),
     JStr("I cannot stand my feelings"),
     JStr("see httpx www.a.b http www and #1a\tb\n")}

TooLongText ==
    LET ten == "aaaaaaaaaa"
        hundred == ten \o ten \o ten \o ten \o ten \o ten \o ten \o ten \o ten \o ten
    IN  hundred \o hundred \o hundred \o hundred \o hundred
        \o hundred \o hundred \o hundred \o hundred \o hundred \o "a"

LedgerTexts ==
    {JStr("I am so happy"),
     JStr("  I am so happy \n"),
     JStr("!!! 123"),
     JStr(""),
     JStr("   "),
     JStr(TooLongText),
     JNum("42"),
     Absent}

\* every raw text of a request, and every value handed to predictor.predict
RawTexts == {t \in PreprocessInputs \cup LedgerTexts : IsStr(t)}

-----------------------------------------------------------------------------
(* Characters *)

LowerLetters == {"a","b","c","d","e","f","g","h","i","j","k","l","m",
                 "n","o","p","q","r","s","t","u","v","w","x","y","z"}
UpperLetters == {"A","B","C","D","E","F","G","H","I","J","K","L","M",
                 "N","O","P","Q","R","S","T","U","V","W","X","Y","Z"}
Digits == {"0","1","2","3","4","5","6","7","8","9"}
\* \s of the re module, on the characters used here
Whitespace == {" ", "\t", "\n", "\r"}
\* \w of the re module, on the characters used here
WordChars == LowerLetters \cup UpperLetters \cup Digits \cup {"_"}

UpperToLower ==
    [c \in UpperLetters |->
        CASE c = "A" -> "a" [] c = "B" -> "b" [] c = "C" -> "c" [] c = "D" -> "d"
          [] c = "E" -> "e" [] c = "F" -> "f" [] c = "G" -> "g" [] c = "H" -> "h"
          [] c = "I" -> "i" [] c = "J" -> "j" [] c = "K" -> "k" [] c = "L" -> "l"
          [] c = "M" -> "m" [] c = "N" -> "n" [] c = "O" -> "o" [] c = "P" -> "p"
          [] c = "Q" -> "q" [] c = "R" -> "r" [] c = "S" -> "s" [] c = "T" -> "t"
          [] c = "U" -> "u" [] c = "V" -> "v" [] c = "W" -> "w" [] c = "X" -> "x"
          [] c = "Y" -> "y" [] c = "Z" -> "z"]

StartsWith(s, p) == Len(s) >= Len(p) /\ SubSeq(s, 1, Len(p)) = p
Drop(s, n) == SubSeq(s, n + 1, Len(s))

\* the longest prefix of s made of characters of the class
RECURSIVE RunLen(_, _)
RunLen(s, class) ==
    IF s = "" \/ Head(s) \notin class THEN 0 ELSE 1 + RunLen(Tail(s), class)

RECURSIVE NonSpaceRunLen(_)
NonSpaceRunLen(s) ==
    IF s = "" \/ Head(s) \in Whitespace THEN 0 ELSE 1 + NonSpaceRunLen(Tail(s))

-----------------------------------------------------------------------------
(* EmotionPredictor.preprocess_text, step by step *)

\* text.lower()
RECURSIVE Lower(_)
Lower(s) ==
    IF s = "" THEN ""
    ELSE (IF Head(s) \in UpperLetters THEN UpperToLower[Head(s)] ELSE Head(s))
         \o Lower(Tail(s))

\* re.sub(r'http\S+|www\S+|https\S+', '', text): leftmost match, first
\* alternative that matches, \S+ greedy.  https\S+ can only match where
\* http\S+ already does.
RECURSIVE RemoveUrls(_)
RemoveUrls(s) ==
    IF s = "" THEN ""
    ELSE IF StartsWith(s, "http") /\ NonSpaceRunLen(Drop(s, 4)) >= 1
         THEN RemoveUrls(Drop(s, 4 + NonSpaceRunLen(Drop(s, 4))))
    ELSE IF StartsWith(s, "www") /\ NonSpaceRunLen(Drop(s, 3)) >= 1
         THEN RemoveUrls(Drop(s, 3 + NonSpaceRunLen(Drop(s, 3))))
    ELSE Head(s) \o RemoveUrls(Tail(s))

\* re.sub(r'@\w+|#\w+', '', text)
RECURSIVE RemoveMentions(_)
RemoveMentions(s) ==
    IF s = "" THEN ""
    ELSE IF Head(s) \in {"@", "#"} /\ RunLen(Tail(s), WordChars) >= 1
         THEN RemoveMentions(Drop(s, 1 + RunLen(Tail(s), WordChars)))
    ELSE Head(s) \o RemoveMentions(Tail(s))

\* re.sub(r'[^a-zA-Z\s]', '', text)
RECURSIVE RemoveSpecial(_)
RemoveSpecial(s) ==
    IF s = "" THEN ""
    ELSE (IF Head(s) \in LowerLetters \cup UpperLetters \cup Whitespace
          THEN Head(s) ELSE "")
         \o RemoveSpecial(Tail(s))

\* re.sub(r'\s+', ' ', text)
RECURSIVE CollapseSpace(_)
CollapseSpace(s) ==
    IF s = "" THEN ""
    ELSE IF Head(s) \in Whitespace
         THEN " " \o CollapseSpace(Drop(s, RunLen(s, Whitespace)))
    ELSE Head(s) \o CollapseSpace(Tail(s))

\* str.strip(): leading and trailing whitespace removed
RECURSIVE TrailingRunLen(_)
TrailingRunLen(s) ==
    IF s = "" \/ SubSeq(s, Len(s), Len(s)) \notin Whitespace THEN 0
    ELSE 1 + TrailingRunLen(SubSeq(s, 1, Len(s) - 1))

StripOf(s) ==
    LET lead == RunLen(s, Whitespace)
        rest == Drop(s, lead)
    IN  SubSeq(rest, 1, Len(rest) - TrailingRunLen(rest))

\* StripOf, evaluated once for each raw text of a request
StripTable == [t \in RawTexts |-> StripOf(t.val)]
Strip(s) == IF JStr(s) \in RawTexts THEN StripTable[JStr(s)] ELSE StripOf(s)

\* the words of a cleaned text (letters and single spaces only)
RECURSIVE SplitWords(_)
SplitWords(s) ==
    IF s = "" THEN <<>>
    ELSE IF Head(s) = " " THEN SplitWords(Tail(s))
    ELSE LET n == RunLen(s, LowerLetters \cup UpperLetters)
         IN  <<SubSeq(s, 1, n)>> \o SplitWords(Drop(s, n))

\* nltk's Treebank tokenizer splits these contractions in two or three
\* (MacIntyreContractions CONTRACTIONS2 and CONTRACTIONS3, without the
\* forms that need an apostrophe, which the cleaning has removed)
SplitContraction(w) ==
    CASE w = "cannot"  -> <<"can", "not">>
      [] w = "gimme"   -> <<"gim", "me">>
      [] w = "gonna"   -> <<"gon", "na">>
      [] w = "gotta"   -> <<"got", "ta">>
      [] w = "lemme"   -> <<"lem", "me">>
      [] w = "wanna"   -> <<"wan", "na">>
      [] w = "whaddya" -> <<"wha", "dd", "ya">>
      [] w = "whatcha" -> <<"wha", "t", "cha">>
      [] OTHER         -> <<w>>

RECURSIVE Flatten(_)
Flatten(ss) == IF ss = <<>> THEN <<>> ELSE Head(ss) \o Flatten(Tail(ss))

\* word_tokenize(text) on a cleaned text
word_tokenize(s) ==
    LET ws == SplitWords(s)
    IN  Flatten([i \in 1..Len(ws) |-> SplitContraction(ws[i])])

\* stopwords.words('english') of nltk
NltkEnglishStopwords ==
    {"i", "me", "my", "myself", "we", "our", "ours", "ourselves", "you",
     "your", "yours", "yourself", "yourselves", "he", "him", "his",
     "himself", "she", "her", "hers", "herself", "it", "its", "itself",
     "they", "them", "their", "theirs", "themselves", "what", "which",
     "who", "whom", "this", "that", "these", "those", "am", "is", "are",
     "was", "were", "be", "been", "being", "have", "has", "had", "having",
     "do", "does", "did", "doing", "a", "an", "the", "and", "but", "if",
     "or", "because", "as", "until", "while", "of", "at", "by", "for",
     "with", "about", "against", "between", "into", "through", "during",
     "before", "after", "above", "below", "to", "from", "up", "down", "in",
     "out", "on", "off", "over", "under", "again", "further", "then",
     "once", "here", "there", "when", "where", "why", "how", "all", "any",
     "both", "each", "few", "more", "most", "other", "some", "such", "no",
     "nor", "not", "only", "own", "same", "so", "than", "too", "very", "s",
     "t", "can", "will", "just", "don", "should", "now", "d", "ll", "m",
     "o", "re", "ve", "y", "ain", "aren", "couldn", "didn", "doesn",
     "hadn", "hasn", "haven", "isn", "ma", "mightn", "mustn", "needn",
     "shan", "shouldn", "wasn", "weren", "won", "wouldn"}

EMOTION_WORDS ==
    {"not", "no", "never", "neither", "nobody", "nothing", "nowhere",
     "hardly", "barely", "scarcely", "rarely", "seldom"}

\* the try branch of the NLP initialisation
StopWordsTry == NltkEnglishStopwords \ EMOTION_WORDS
\* the except branch: after the download the exception set is not subtracted
StopWordsExcept == NltkEnglishStopwords

\* WordNetLemmatizer.lemmatize(token), default part of speech (noun), on
\* the vocabulary used here: plural nouns lose their ending, every other
\* word is returned as it is
lemmatize(w) ==
    CASE w = "feelings" -> "feeling"
      [] w = "friends"  -> "friend"
      [] w = "days"     -> "day"
      [] OTHER          -> w

\* ' '.join(tokens)
RECURSIVE Join(_)
Join(ws) ==
    IF ws = <<>> THEN ""
    ELSE IF Len(ws) = 1 THEN ws[1]
    ELSE ws[1] \o " " \o Join(Tail(ws))

\* the cleaning steps before tokenization (lines 140-152)
CleanText(s) ==
    Strip(CollapseSpace(RemoveSpecial(RemoveMentions(RemoveUrls(Lower(s))))))

\* token not in stop_words and len(token) > 2
KeepToken(token, sw) == token \notin sw /\ Len(token) > 2

\* [lemmatizer.lemmatize(token) for token in tokens if ...]
RECURSIVE FilterLemmatize(_, _)
FilterLemmatize(tokens, sw) ==
    IF tokens = <<>> THEN <<>>
    ELSE (IF KeepToken(Head(tokens), sw)
          THEN <<lemmatize(Head(tokens))>> ELSE <<>>)
         \o FilterLemmatize(Tail(tokens), sw)

PreprocessWith(text, sw) ==
    IF ~IsStr(text) THEN ""
    ELSE Join(FilterLemmatize(word_tokenize(CleanText(text.val)), sw))

\* the module global stop_words after lines 78-91
stop_words == IF nlp_init = "try" THEN StopWordsTry ELSE StopWordsExcept

\* PreprocessWith, evaluated once for each value handed to predictor.predict
PredictedValues ==
    PreprocessInputs \cup {JStr(Strip(t.val)) : t \in RawTexts}
PreprocessTableTry ==
    [text \in PredictedValues |-> PreprocessWith(text, StopWordsTry)]
PreprocessTableExcept ==
    [text \in PredictedValues |-> PreprocessWith(text, StopWordsExcept)]

preprocess_text(text) ==
    IF text \in PredictedValues
    THEN IF nlp_init = "try" THEN PreprocessTableTry[text]
         ELSE PreprocessTableExcept[text]
    ELSE PreprocessWith(text, stop_words)

-----------------------------------------------------------------------------
(* EMOTION_CONFIG (emojis are written as their code points) *)

KnownEmotions == {"happiness", "anger", "sadness", "stress", "neutral"}

EMOTION_CONFIG ==
    [e \in KnownEmotions |->
        CASE e = "happiness" ->
               [emoji |-> "U+1F60A", color |-> "#FFD700",
                description |-> "Joyful, content, or pleased feeling",
                intensity |-> "positive"]
          [] e = "anger" ->
               [emoji |-> "U+1F620", color |-> "#DC143C",
                description |-> "Irritated, frustrated, or furious feeling",
                intensity |-> "negative"]
          [] e = "sadness" ->
               [emoji |-> "U+1F622", color |-> "#4169E1",
                description |-> "Unhappy, sorrowful, or depressed feeling",
                intensity |-> "negative"]
          [] e = "stress" ->
               [emoji |-> "U+1F630", color |-> "#FF8C00",
                description |-> "Anxious, overwhelmed, or tense feeling",
                intensity |-> "negative"]
          [] e = "neutral" ->
               [emoji |-> "U+1F610", color |-> "#808080",
                description |-> "No strong emotion detected",
                intensity |-> "neutral"]]

\* the default of EMOTION_CONFIG.get(emotion, {...}) in predict
UnknownEmotionDetails ==
    [emoji |-> "U+2753", color |-> "#000000",
     description |-> "Unknown emotion", intensity |-> "unknown"]

EmotionDetails(emotion) ==
    IF emotion \in DOMAIN EMOTION_CONFIG THEN EMOTION_CONFIG[emotion]
    ELSE UnknownEmotionDetails

-----------------------------------------------------------------------------
(* EmotionPredictor.predict *)

\* Where a value is used several times it is bound once, as the element v of
\* a singleton set: CHOOSE out \in {F(v) : v \in {e}} : TRUE is F(e).

\* round(v * 100, 2) of a probability v given in millionths, as hundredths
\* of a percent; a tie goes to the even neighbour, as Python's round does
RoundPercent(p) ==
    LET q == p \div 100
        r == p % 100
    IN  IF r > 50 \/ (r = 50 /\ q % 2 = 1) THEN q + 1 ELSE q

\* max(probabilities)
RECURSIVE MaxOf(_)
MaxOf(ps) ==
    IF Len(ps) = 1 THEN ps[1]
    ELSE LET m == MaxOf(Tail(ps)) IN IF ps[1] >= m THEN ps[1] ELSE m

\* zip(self.model.classes_, probabilities) as (label, prob) pairs
Zip(labels, ps) ==
    LET n == IF Len(labels) <= Len(ps) THEN Len(labels) ELSE Len(ps)
    IN  [i \in 1..n |-> <<labels[i], ps[i]>>]

\* sorted(items, key=lambda x: x[1], reverse=True): the sort is stable, so
\* item i comes after every item with a greater probability and after the
\* earlier items with the same probability
RankDesc(items, i) ==
    1 + Cardinality({j \in DOMAIN items :
                        \/ items[j][2] > items[i][2]
                        \/ (items[j][2] = items[i][2] /\ j < i)})

SortDesc(items) ==
    LET Sorted(its) ==
            [k \in DOMAIN its |-> its[CHOOSE i \in DOMAIN its : RankDesc(its, i) = k]]
    IN  CHOOSE out \in {Sorted(v) : v \in {items}} : TRUE

\* list(...)[:5]
TopK == 5
FirstK(items, k) == SubSeq(items, 1, IF Len(items) < k THEN Len(items) ELSE k)

\* what the unpickled vectorizer and model do with one processed text
Behaviour(processed_text) == artifact.out[processed_text]

Raised(msg) == [raised |-> msg]
IsRaised(r) == "raised" \in DOMAIN r

EmptyError == "Text is empty after preprocessing"

\* confidence and all_probabilities (lines 193-208)
ConfidenceOf(b) ==
    IF artifact.has_proba THEN MaxOf(b.proba) ELSE 1000000

AllProbabilities(b) ==
    IF artifact.has_proba THEN SortDesc(Zip(artifact.classes_, b.proba))
    ELSE <<<<b.label, 1000000>>>>

\* lines 218-232: the result of a prediction that raised nothing
SuccessResult(text, processed_text, emotion, confidence, all_probabilities) ==
    LET emotion_details == EmotionDetails(emotion)
        Result(top) ==
            [success |-> TRUE,
             emotion |-> emotion,
             confidence |-> RoundPercent(confidence),
             emoji |-> emotion_details.emoji,
             color |-> emotion_details.color,
             description |-> emotion_details.description,
             intensity |-> emotion_details.intensity,
             all_probabilities |->
                 [i \in 1..Len(top) |-> <<top[i][1], RoundPercent(top[i][2])>>],
             processed_text |-> processed_text,
             original_text |-> text]
    IN  CHOOSE out \in {Result(v) : v \in {FirstK(all_probabilities, TopK)}} : TRUE

\* lines 187-232 for one behaviour b of the vectorizer and the model
Classify(text, processed_text, b) ==
    LET proba_call == IF artifact.has_proba THEN <<"predict_proba">> ELSE <<>>
    IN  IF b.raises = "transform"
        THEN [result |-> Raised("transform failed"),
              invoked |-> <<"transform">>]
        ELSE IF b.raises = "predict"
        THEN [result |-> Raised("predict failed"),
              invoked |-> <<"transform", "predict">>]
        ELSE IF artifact.has_proba /\ b.raises = "predict_proba"
        THEN [result |-> Raised("predict_proba failed"),
              invoked |-> <<"transform", "predict", "predict_proba">>]
        ELSE [result |-> SuccessResult(text, processed_text, b.label,
                                       ConfidenceOf(b), AllProbabilities(b)),
              invoked |-> <<"transform", "predict">> \o proba_call]

\* the body of the try block of predict: the result returned or the
\* exception raised, and the vectorizer and model methods called on the way
PredictBody(text) ==
    LET Body(processed_text) ==
            IF processed_text = ""
            THEN [result |-> [success |-> FALSE, error |-> EmptyError],
                  invoked |-> <<>>]
            ELSE LET Run(b) == Classify(text, processed_text, b)
                 IN  CHOOSE out \in {Run(v) : v \in {Behaviour(processed_text)}} : TRUE
    IN  CHOOSE out \in {Body(v) : v \in {preprocess_text(text)}} : TRUE

\* predict without its except clause: the exception reaches the caller
Uncaught(r) == r
\* try: ... except Exception as e: return {'success': False, 'error': str(e)}
Caught(r) == IF IsRaised(r) THEN [success |-> FALSE, error |-> r.raised] ELSE r

predict(text) == CHOOSE out \in {Caught(v) : v \in {PredictBody(text).result}} : TRUE

-----------------------------------------------------------------------------
(* The unpickled artifacts.  The vectorizer and the model are opaque: an    *)
(* artifact fixes, for every processed text, whether a stage raises, the    *)
(* label model.predict returns and the vector model.predict_proba returns.  *)
(* hasattr(model, 'predict_proba') and model.classes_ belong to the model.  *)

Range(f) == {f[i] : i \in DOMAIN f}

Classes5 == <<"anger", "happiness", "neutral", "sadness", "stress">>
Classes6 == <<"anger", "fear", "happiness", "neutral", "sadness", "stress">>

ProbaVectors(classes) ==
    IF Len(classes) = 5
    THEN {<<100000, 600000, 100000, 100000, 100000>>,
          <<400000, 400000, 200000, 0, 0>>,
          <<333333, 333334, 333333, 0, 0>>}
    ELSE {<<50000, 450000, 200000, 100000, 100000, 100000>>}

Outcomes(classes) ==
    {[raises |-> r, label |-> classes[1], proba |-> CHOOSE p \in ProbaVectors(classes) : TRUE]
        : r \in {"transform", "predict", "predict_proba"}}
    \cup
    {[raises |-> "none", label |-> l, proba |-> p]
        : l \in Range(classes), p \in ProbaVectors(classes)}

\* the outcomes that only name a label, none raising
LabelOutcomes(classes, labels) ==
    {[raises |-> "none", label |-> l, proba |-> CHOOSE p \in ProbaVectors(classes) : TRUE]
        : l \in labels}

Artifacts(classes, ptexts, outcomes) ==
    {[has_proba |-> h, classes_ |-> classes, out |-> f]
        : h \in BOOLEAN, f \in [ptexts -> outcomes]}

\* the processed texts a set of inputs can lead to, whichever branch of the
\* NLP initialisation ran
ProcessedTexts(inputs) ==
    {PreprocessWith(t, sw) : t \in inputs, sw \in {StopWordsTry, StopWordsExcept}}
    \ {""}

-----------------------------------------------------------------------------
(* State shared by the specifications *)

Threads == {1, 2}

NoRequest == [endpoint |-> "none"]
NoResponse == [status |-> 0]
NoCalls == [predict |-> 0, classifier |-> 0]

InitNlp == nlp_init \in {"try", "except"}

InitServer ==
    /\ prediction_history = <<>>
    /\ drawn = [epoch |-> 0, seq |-> 0]
    /\ pc = [t \in Threads |-> "idle"]
    /\ local = [t \in Threads |-> NoRequest]
    /\ request = NoRequest
    /\ response = NoResponse
    /\ calls = NoCalls

-----------------------------------------------------------------------------
(* SpecPredict: EmotionPredictor.preprocess_text and EmotionPredictor.predict *)
(* called directly on one value                                              *)

InitPredict ==
    /\ InitNlp
    /\ artifact \in
         Artifacts(Classes5, ProcessedTexts(PredictInputs), Outcomes(Classes5))
         \cup Artifacts(Classes6, ProcessedTexts(PredictInputs), Outcomes(Classes6))
    /\ InitServer

CallPreprocess(text) ==
    /\ request' = [endpoint |-> "preprocess_text", text |-> text]
    /\ response' = [processed_text |-> preprocess_text(text)]
    /\ calls' = NoCalls
    /\ UNCHANGED <<nlp_init, artifact, prediction_history, drawn, pc, local>>

CallPredict(text) ==
    /\ request' = [endpoint |-> "predict", text |-> text]
    /\ response' = predict(text)
    /\ calls' = [predict |-> 1, classifier |-> Len(PredictBody(text).invoked)]
    /\ UNCHANGED <<nlp_init, artifact, prediction_history, drawn, pc, local>>

NextPredict ==
    \/ \E text \in PreprocessInputs : CallPreprocess(text)
    \/ \E text \in PredictInputs : CallPredict(text)

SpecPredict == InitPredict /\ [][NextPredict]_vars

-----------------------------------------------------------------------------
(* The history ledger: predict_emotion, get_history, clear_history *)

MaxHistory == 100
MaxTextLength == 1000
DefaultLimit == 20

\* request.get_json(): no body, or a JSON object with these keys
NoBody == [body |-> "null", text |-> Absent, save_history |-> Absent]
Body(text, save_history) ==
    [body |-> "object", text |-> text, save_history |-> save_history]

\* not data: None or {}
IsEmptyData(data) ==
    data.body = "null" \/ (data.text = Absent /\ data.save_history = Absent)

\* data.get('save_history', True), as the condition of line 328 reads it
SaveHistory(data) ==
    IF data.save_history = Absent THEN TRUE ELSE data.save_history = JBool(TRUE)

\* prediction_history.append(history_entry), as a contrast to line 338
InsertBack(history, entry) == history \o <<entry>>
\* prediction_history.insert(0, history_entry)
InsertFront(history, entry) == <<entry>> \o history

\* prediction_history.pop(0), as a contrast to line 342
PopFirst(history) == SubSeq(history, 2, Len(history))
\* if len(prediction_history) > 100: prediction_history.pop()
PopLast(history) == SubSeq(history, 1, Len(history) - 1)
Truncate(history) ==
    IF Len(history) > MaxHistory THEN PopLast(history) ELSE history

\* uuid4() and utcnow(): a value never drawn before, later than every
\* earlier one
NextTick == [epoch |-> drawn.epoch, seq |-> drawn.seq + 1]

\* the history_entry of lines 330-337
HistoryEntry(tick, text, result) ==
    [id |-> tick,
     timestamp |-> tick,
     original_text |-> text,
     emotion |-> result.emotion,
     confidence |-> result.confidence,
     emoji |-> result.emoji]

Respond(status, body) == [status |-> status, body |-> body]
ErrorBody(msg) == [success |-> FALSE, error |-> msg]

\* predict_emotion up to line 326: the response of an early return, or the
\* stripped text and the prediction made for it
PredictEmotionResult(data) ==
    IF IsEmptyData(data)
    THEN [done |-> TRUE, response |-> Respond(400, ErrorBody("No data provided")),
          predicts |-> 0]
    ELSE IF data.text # Absent /\ ~IsStr(data.text)
    THEN \* ''.strip() exists only on str: AttributeError, caught at line 346
         [done |-> TRUE,
          response |-> Respond(500, ErrorBody("Server error: no attribute 'strip'")),
          predicts |-> 0]
    ELSE
    LET text == IF data.text = Absent THEN "" ELSE Strip(data.text.val)
    IN  IF text = ""
        THEN [done |-> TRUE, response |-> Respond(400, ErrorBody("Text is required")),
              predicts |-> 0]
        ELSE IF Len(text) > MaxTextLength
        THEN [done |-> TRUE,
              response |-> Respond(400,
                  ErrorBody("Text exceeds maximum length of 1000 characters")),
              predicts |-> 0]
        ELSE [done |-> FALSE, text |-> JStr(text), result |-> predict(JStr(text)),
              predicts |-> 1]

\* limit = request.args.get('limit', 20, type=int): a missing or
\* non-integer value gives the default
LimitArg(arg) == IF arg.kind = "int" THEN arg.value ELSE DefaultLimit

Min(a, b) == IF a <= b THEN a ELSE b
Max(a, b) == IF a >= b THEN a ELSE b

\* seq[:k] of Python: a negative k counts from the end
PySlicePrefix(seq, k) ==
    IF k >= 0 THEN SubSeq(seq, 1, Min(k, Len(seq)))
    ELSE SubSeq(seq, 1, Max(Len(seq) + k, 0))

\* limit = min(limit, 100)
ClampLimit(limit) == Min(limit, MaxHistory)

-----------------------------------------------------------------------------
(* SpecLedger: the three history endpoints, one request at a time *)

MaxRecords == 150
MaxClears == 1

LedgerData ==
    {NoBody}
    \cup {Body(text, save) : text \in {JStr("I am so happy"), JStr("  I am so happy \n")},
                             save \in {Absent, JBool(TRUE), JBool(FALSE)}}
    \cup {Body(text, JBool(TRUE)) : text \in LedgerTexts}

\* the limit query parameter: missing, an integer, or text that is no integer
LedgerLimits ==
    {[kind |-> "absent", value |-> 0], [kind |-> "text", value |-> 0]} \cup
    {[kind |-> "int", value |-> n] : n \in {-1, 0, 1, 100, 101}}

LedgerOutcomes ==
    {[raises |-> "none", label |-> "happiness",
      proba |-> <<100000, 600000, 100000, 100000, 100000>>],
     [raises |-> "predict", label |-> "anger",
      proba |-> <<100000, 600000, 100000, 100000, 100000>>]}

InitLedger ==
    /\ nlp_init = "try"
    /\ artifact \in {a \in Artifacts(Classes5, {"happy"}, LedgerOutcomes) : a.has_proba}
    /\ InitServer

\* POST /predict, the whole handler
PredictEmotion(data) ==
    LET r == PredictEmotionResult(data)
        save == ~r.done /\ r.result.success /\ SaveHistory(data)
    IN  /\ save => drawn.seq < MaxRecords
        /\ request' = [endpoint |-> "/predict", data |-> data]
        /\ response' = IF r.done THEN r.response ELSE Respond(200, r.result)
        /\ calls' = [predict |-> r.predicts,
                     classifier |-> IF r.done THEN 0
                                    ELSE Len(PredictBody(r.text).invoked)]
        /\ IF save
           THEN /\ prediction_history' =
                     Truncate(InsertFront(prediction_history,
                                          HistoryEntry(NextTick, r.text, r.result)))
                /\ drawn' = NextTick
           ELSE UNCHANGED <<prediction_history, drawn>>
        /\ UNCHANGED <<nlp_init, artifact, pc, local>>

\* GET /history?limit=arg
GetHistory(arg) ==
    LET limit == ClampLimit(LimitArg(arg))
        history == PySlicePrefix(prediction_history, limit)
    IN  /\ request' = [endpoint |-> "/history", limit |-> arg]
        /\ response' = Respond(200, [success |-> TRUE, count |-> Len(history),
                                     history |-> history])
        /\ calls' = NoCalls
        /\ UNCHANGED <<nlp_init, artifact, prediction_history, drawn, pc, local>>

\* POST /history/clear
ClearHistory ==
    /\ drawn.epoch < MaxClears
    /\ request' = [endpoint |-> "/history/clear"]
    /\ response' = Respond(200, [success |-> TRUE,
                                 message |-> "History cleared successfully"])
    /\ prediction_history' = <<>>
    /\ drawn' = [epoch |-> drawn.epoch + 1, seq |-> 0]
    /\ calls' = NoCalls
    /\ UNCHANGED <<nlp_init, artifact, pc, local>>

NextLedger ==
    \/ \E data \in LedgerData : PredictEmotion(data)
    \/ \E arg \in LedgerLimits : GetHistory(arg)
    \/ ClearHistory

SpecLedger == InitLedger /\ [][NextLedger]_vars

-----------------------------------------------------------------------------
(* SpecThreads: /predict and /history/clear served by concurrent request   *)
(* threads.  The handler takes no lock; a thread can be preempted between   *)
(* any two of the list operations of lines 338-342, each of which is        *)
(* atomic under the interpreter lock.                                       *)

ThreadData == {Body(JStr("I am so happy"), Absent), Body(JStr("   "), Absent)}

\* records the threads add to the ledger the server starts with
MaxThreadRecords == 2

\* the ledger n recorded predictions of the same text, made one at a time
\* since start-up, leave behind
LedgerAfter(n, text) ==
    LET result == predict(text)
    IN  [i \in 1..Min(n, MaxHistory) |->
            HistoryEntry([epoch |-> 0, seq |-> n - i + 1], text, result)]

\* the threads start on a server that has recorded 99 or 100 predictions
InitThreads ==
    /\ nlp_init = "try"
    /\ artifact \in {a \in Artifacts(Classes5, {"happy"}, LedgerOutcomes) :
                        a.has_proba /\ a.out["happy"].raises = "none"}
    /\ \E n \in {MaxHistory - 1, MaxHistory} :
          /\ drawn = [epoch |-> 0, seq |-> n]
          /\ prediction_history = LedgerAfter(n, JStr("I am so happy"))
    /\ pc = [t \in Threads |-> "idle"]
    /\ local = [t \in Threads |-> NoRequest]
    /\ request = NoRequest
    /\ response = NoResponse
    /\ calls = NoCalls

\* lines 301-337: validation, the prediction, the history_entry
Begin(t, data) ==
    LET r == PredictEmotionResult(data)
        save == ~r.done /\ r.result.success /\ SaveHistory(data)
    IN  /\ pc[t] = "idle"
        /\ save => (drawn.epoch = 0 /\ drawn.seq < MaxHistory + MaxThreadRecords)
        /\ IF save
           THEN /\ local' = [local EXCEPT ![t] = [entry |-> HistoryEntry(NextTick, r.text, r.result),
                                                  result |-> r.result]]
                /\ drawn' = NextTick
                /\ pc' = [pc EXCEPT ![t] = "insert"]
                /\ UNCHANGED response
           ELSE /\ response' = IF r.done THEN r.response ELSE Respond(200, r.result)
                /\ UNCHANGED <<local, drawn, pc>>
        /\ UNCHANGED <<nlp_init, artifact, prediction_history, request, calls>>

\* line 338: prediction_history.insert(0, history_entry)
Insert(t) ==
    /\ pc[t] = "insert"
    /\ prediction_history' = InsertFront(prediction_history, local[t].entry)
    /\ pc' = [pc EXCEPT ![t] = "check"]
    /\ UNCHANGED <<nlp_init, artifact, drawn, local, request, response, calls>>

\* line 341: if len(prediction_history) > 100; line 344 when it is not
CheckLength(t) ==
    /\ pc[t] = "check"
    /\ IF Len(prediction_history) > MaxHistory
       THEN /\ pc' = [pc EXCEPT ![t] = "pop"]
            /\ UNCHANGED <<local, response>>
       ELSE /\ pc' = [pc EXCEPT ![t] = "idle"]
            /\ local' = [local EXCEPT ![t] = NoRequest]
            /\ response' = Respond(200, local[t].result)
    /\ UNCHANGED <<nlp_init, artifact, prediction_history, drawn, request, calls>>

\* line 342: prediction_history.pop(), IndexError on an empty list (caught
\* at line 346); then line 344
Pop(t) ==
    /\ pc[t] = "pop"
    /\ IF prediction_history = <<>>
       THEN /\ response' = Respond(500, ErrorBody("Server error: pop from empty list"))
            /\ UNCHANGED prediction_history
       ELSE /\ response' = Respond(200, local[t].result)
            /\ prediction_history' = PopLast(prediction_history)
    /\ pc' = [pc EXCEPT ![t] = "idle"]
    /\ local' = [local EXCEPT ![t] = NoRequest]
    /\ UNCHANGED <<nlp_init, artifact, drawn, request, calls>>

NextThreads ==
    \/ \E t \in Threads, data \in ThreadData : Begin(t, data)
    \/ \E t \in Threads : Insert(t)
    \/ \E t \in Threads : CheckLength(t)
    \/ \E t \in Threads : Pop(t)
    \/ ClearHistory

SpecThreads == InitThreads /\ [][NextThreads]_vars

-----------------------------------------------------------------------------
(* SpecBatch: POST /predict/batch *)

MaxBatch == 50

\* shortest batches are enumerated in full up to this length
MaxShortBatch == 2

BatchItems ==
    <<JStr("I am so happy"), JStr("I am NOT happy today"), JStr("Oh no"), JNum("42")>>

\* a batch of n items that walks through BatchItems from a given offset
CycleBatch(n, offset) ==
    [i \in 1..n |-> BatchItems[((i + offset) % Len(BatchItems)) + 1]]

RECURSIVE SeqsUpTo(_, _)
SeqsUpTo(S, n) ==
    IF n = 0 THEN {<<>>}
    ELSE LET shorter == SeqsUpTo(S, n - 1)
         IN  shorter \cup {Append(s, x) : s \in {q \in shorter : Len(q) = n - 1}, x \in S}

\* request.get_json() of /predict/batch: no body, an object without the
\* key 'texts', 'texts' holding a value that is no list, or a list
BatchNoBody == [body |-> "null", kind |-> "absent", texts |-> <<>>]
BatchBody(kind, texts) == [body |-> "object", kind |-> kind, texts |-> texts]

BatchData ==
    {BatchNoBody, BatchBody("absent", <<>>), BatchBody("string", <<>>)}
    \cup {BatchBody("list", texts) : texts \in SeqsUpTo(Range(BatchItems), MaxShortBatch)}
    \cup {BatchBody("list", CycleBatch(n, offset)) :
             n \in {MaxBatch, MaxBatch + 1}, offset \in 0..(Len(BatchItems) - 1)}

BatchOutcomes ==
    {[raises |-> "none", label |-> "happiness",
      proba |-> <<100000, 600000, 100000, 100000, 100000>>],
     [raises |-> "none", label |-> "sadness",
      proba |-> <<400000, 400000, 200000, 0, 0>>],
     [raises |-> "transform", label |-> "anger",
      proba |-> <<100000, 600000, 100000, 100000, 100000>>]}

InitBatch ==
    /\ nlp_init = "try"
    /\ artifact \in Artifacts(Classes5, {"happy", "not happy today"}, BatchOutcomes)
    /\ InitServer

\* results.insert(0, result), as a contrast to line 393
PrependedResults(texts) ==
    [i \in 1..Len(texts) |-> predict(texts[Len(texts) + 1 - i])]
\* results = []; for text in texts: results.append(predictor.predict(text));
\* the loop leaves at position i what predict returned for texts[i]
BatchResults(texts) == [i \in 1..Len(texts) |-> predict(texts[i])]

\* the number of vectorizer and model calls predict makes on each text
RECURSIVE SumSeq(_, _)
SumSeq(ns, i) == IF i > Len(ns) THEN 0 ELSE ns[i] + SumSeq(ns, i + 1)
ClassifierCalls(texts) ==
    SumSeq([i \in DOMAIN texts |-> Len(PredictBody(texts[i]).invoked)], 1)

\* the handler up to its return: the response and the predictions made
PredictBatchResult(data) ==
    IF data.body = "null" \/ data.kind = "absent"
    THEN [response |-> Respond(400, ErrorBody("Texts array is required")),
          predicted |-> <<>>]
    ELSE IF data.kind # "list"
    THEN [response |-> Respond(400, ErrorBody("Texts must be an array")),
          predicted |-> <<>>]
    ELSE IF Len(data.texts) > MaxBatch
    THEN [response |-> Respond(400, ErrorBody("Maximum 50 texts allowed per batch")),
          predicted |-> <<>>]
    ELSE LET Done(results) ==
                 [response |-> Respond(200, [success |-> TRUE,
                                             count |-> Len(results),
                                             results |-> results]),
                  predicted |-> data.texts]
         IN  CHOOSE out \in {Done(v) : v \in {BatchResults(data.texts)}} : TRUE

\* POST /predict/batch, the whole handler
PredictBatch(data) ==
    \E r \in {PredictBatchResult(data)} :
        /\ request' = [endpoint |-> "/predict/batch", data |-> data]
        /\ response' = r.response
        /\ calls' = [predict |-> Len(r.predicted),
                     classifier |-> ClassifierCalls(r.predicted)]
        /\ UNCHANGED <<nlp_init, artifact, prediction_history, drawn, pc, local>>

NextBatch == \E data \in BatchData : PredictBatch(data)

SpecBatch == InitBatch /\ [][NextBatch]_vars

-----------------------------------------------------------------------------
(* SpecAnalyze: POST /analyze *)

\* conversations are enumerated in full up to this length
MaxMessages == 4

\* a message of the request: a JSON object with or without the key 'text',
\* or a JSON number
Message(sender, text) == [type |-> "object", sender |-> sender, text |-> text]
NumberMessage == [type |-> "number", sender |-> "", text |-> Absent]

AnalyzeMessages ==
    {Message("ann", JStr("I am so happy")),
     Message("bob", JStr("I am NOT happy today")),
     Message("ann", JStr("Oh no")),
     Message("bob", Absent),
     NumberMessage}

AnalyzeNoBody == [body |-> "null", kind |-> "absent", messages |-> <<>>]
AnalyzeBody(kind, messages) == [body |-> "object", kind |-> kind, messages |-> messages]

AnalyzeData ==
    {AnalyzeNoBody, AnalyzeBody("absent", <<>>), AnalyzeBody("string", <<>>)}
    \cup {AnalyzeBody("list", messages) : messages \in SeqsUpTo(AnalyzeMessages, MaxMessages)}

AnalyzeOutcomes ==
    LabelOutcomes(Classes6, {"happiness", "anger", "neutral", "fear"})
    \cup {[raises |-> "predict", label |-> "anger",
           proba |-> CHOOSE p \in ProbaVectors(Classes6) : TRUE]}

InitAnalyze ==
    /\ nlp_init = "try"
    /\ artifact \in {a \in Artifacts(Classes6, {"happy", "not happy today"}, AnalyzeOutcomes) :
                        a.has_proba}
    /\ InitServer

\* a dict as its (key, value) pairs in insertion order
RECURSIVE DictGet(_, _, _)
DictGet(items, key, default) ==
    IF items = <<>> THEN default
    ELSE IF Head(items)[1] = key THEN Head(items)[2]
    ELSE DictGet(Tail(items), key, default)

\* d[key] = value: a key already present keeps its place
DictSet(items, key, value) ==
    IF \E i \in DOMAIN items : items[i][1] = key
    THEN [i \in DOMAIN items |-> IF items[i][1] = key THEN <<key, value>> ELSE items[i]]
    ELSE Append(items, <<key, value>>)

\* the last key, in insertion order, of maximal value, as a contrast to MaxKey
LastMaxKey(items) ==
    items[CHOOSE i \in DOMAIN items :
            \A j \in DOMAIN items :
                IF j > i THEN items[j][2] < items[i][2] ELSE items[j][2] <= items[i][2]][1]
\* max(d, key=d.get): the first key, in insertion order, whose value no
\* other key's value exceeds
MaxKey(items) ==
    items[CHOOSE i \in DOMAIN items :
            \A j \in DOMAIN items :
                IF j < i THEN items[j][2] < items[i][2] ELSE items[j][2] <= items[i][2]][1]

\* round(num / den, 0) on integers, a tie going to the even neighbour
RoundHalfEven(num, den) ==
    LET q == num \div den
        r == num % den
    IN  IF 2 * r > den \/ (2 * r = den /\ q % 2 = 1) THEN q + 1 ELSE q

\* round(count / total * 100, 2) if total > 0 else 0, in hundredths of a percent
Percentage(count, total) ==
    IF total > 0 THEN RoundHalfEven(count * 10000, total) ELSE 0

EmptyAnalysis ==
    [raised |-> FALSE, analyzed_messages |-> <<>>, emotion_counts |-> <<>>,
     total_confidence |-> 0, predicted |-> <<>>]

\* one pass of the loop of lines 492-507 over msg
AnalyzeStep(acc, msg) ==
    IF msg.type # "object"
    THEN \* 'text' in msg on an int: TypeError, caught at line 546
         [acc EXCEPT !.raised = TRUE]
    ELSE IF msg.text = Absent THEN acc
    ELSE LET Counted(result) ==
                 IF ~result.success
                 THEN [acc EXCEPT !.predicted = Append(@, msg.text)]
                 ELSE [acc EXCEPT
                         !.predicted = Append(@, msg.text),
                         !.analyzed_messages =
                             Append(@, [sender |-> msg.sender, text |-> msg.text,
                                        emotion |-> result.emotion,
                                        confidence |-> result.confidence,
                                        emoji |-> result.emoji]),
                         !.emotion_counts =
                             DictSet(@, result.emotion, DictGet(@, result.emotion, 0) + 1),
                         !.total_confidence = @ + result.confidence]
         IN  CHOOSE out \in {Counted(v) : v \in {predict(msg.text)}} : TRUE

\* for msg in messages: ... (i is the position of the loop in messages)
RECURSIVE AnalyzeLoop(_, _, _)
AnalyzeLoop(messages, i, acc) ==
    IF i > Len(messages) \/ acc.raised THEN acc
    ELSE LET Rest(next) == AnalyzeLoop(messages, i + 1, next)
         IN  CHOOSE out \in {Rest(v) : v \in {AnalyzeStep(acc, messages[i])}} : TRUE

PositiveEmotions == <<"happiness">>
NegativeEmotions == <<"anger", "sadness", "stress">>

\* sum(emotion_counts.get(e, 0) for e in emotions)
RECURSIVE SumCounts(_, _)
SumCounts(emotion_counts, emotions) ==
    IF emotions = <<>> THEN 0
    ELSE DictGet(emotion_counts, Head(emotions), 0)
         + SumCounts(emotion_counts, Tail(emotions))

\* lines 509-543: the summary of a loop that raised nothing
Summary(acc) ==
    LET emotion_counts == acc.emotion_counts
        dominant_emotion ==
            IF emotion_counts # <<>> THEN MaxKey(emotion_counts) ELSE "neutral"
        total == Len(acc.analyzed_messages)
        positive_count == SumCounts(emotion_counts, PositiveEmotions)
        negative_count == SumCounts(emotion_counts, NegativeEmotions)
        neutral_count == DictGet(emotion_counts, "neutral", 0)
    IN  [success |-> TRUE,
         total_messages |-> total,
         dominant_emotion |-> dominant_emotion,
         dominant_emoji |->
             IF dominant_emotion \in DOMAIN EMOTION_CONFIG
             THEN EMOTION_CONFIG[dominant_emotion].emoji ELSE "U+1F610",
         average_confidence |->
             IF total > 0 THEN RoundHalfEven(acc.total_confidence, total) ELSE 0,
         emotion_distribution |-> emotion_counts,
         sentiment_summary |->
             [positive |-> [count |-> positive_count,
                            percentage |-> Percentage(positive_count, total)],
              negative |-> [count |-> negative_count,
                            percentage |-> Percentage(negative_count, total)],
              neutral |-> [count |-> neutral_count,
                           percentage |-> Percentage(neutral_count, total)]],
         analyzed_messages |-> acc.analyzed_messages]

\* the handler up to its return: the response and the texts predicted
AnalyzeResult(data) ==
    IF data.body = "null" \/ data.kind = "absent"
    THEN [response |-> Respond(400, ErrorBody("Messages array is required")),
          predicted |-> <<>>]
    ELSE IF data.kind # "list"
    THEN [response |-> Respond(400, ErrorBody("Messages must be an array")),
          predicted |-> <<>>]
    ELSE LET Done(acc) ==
                 [response |->
                      IF acc.raised
                      THEN Respond(500, ErrorBody("argument of type 'int' is not iterable"))
                      ELSE Respond(200, Summary(acc)),
                  predicted |-> acc.predicted]
         IN  CHOOSE out \in {Done(v) : v \in {AnalyzeLoop(data.messages, 1, EmptyAnalysis)}} : TRUE

\* POST /analyze, the whole handler.  It reads and writes nothing that
\* outlives the request, so a behaviour serves one request.
AnalyzeConversation(data) ==
    /\ request = NoRequest
    /\ \E r \in {AnalyzeResult(data)} :
        /\ request' = [endpoint |-> "/analyze", data |-> data]
        /\ response' = r.response
        /\ calls' = [predict |-> Len(r.predicted),
                     classifier |-> ClassifierCalls(r.predicted)]
        /\ UNCHANGED <<nlp_init, artifact, prediction_history, drawn, pc, local>>

NextAnalyze == \E data \in AnalyzeData : AnalyzeConversation(data)

SpecAnalyze == InitAnalyze /\ [][NextAnalyze]_vars

-----------------------------------------------------------------------------
(* Claims checked under SpecPredict *)

\* the value an ordered (label, value) mapping gives a label, -1 if absent
RECURSIVE Lookup(_, _)
Lookup(items, label) ==
    IF items = <<>> THEN -1
    ELSE IF Head(items)[1] = label THEN Head(items)[2]
    ELSE Lookup(Tail(items), label)

PredictSucceeded == request.endpoint = "predict" /\ response.success

\* C6: for every successful prediction, confidence is the value the
\* probability distribution gives the returned emotion label, and it is the
\* maximum of that distribution.
C6_ConfidenceIsWinningLabelMass ==
    PredictSucceeded =>
        /\ response.confidence = Lookup(response.all_probabilities, response.emotion)
        /\ \A i \in DOMAIN response.all_probabilities :
              response.all_probabilities[i][2] <= response.confidence

\* C9: predict returns a structured result for every input; a value that is
\* not a string or normalizes to empty gives the empty-text failure without
\* the vectorizer or the model being called; a raising vectorizer or model
\* gives a failure that carries the exception's message.
C9_PredictNeverPropagates ==
    request.endpoint = "predict" =>
        LET text == request.text
            processed == preprocess_text(text)
        IN  /\ "success" \in DOMAIN response
            /\ response.success \in BOOLEAN
            /\ (~IsStr(text) \/ processed = "") =>
                  /\ response = [success |-> FALSE, error |-> EmptyError]
                  /\ calls.classifier = 0
            /\ (processed # "" /\ artifact.out[processed].raises = "transform") =>
                  response = [success |-> FALSE, error |-> "transform failed"]
            /\ (processed # "" /\ artifact.out[processed].raises = "predict") =>
                  response = [success |-> FALSE, error |-> "predict failed"]
            /\ (processed # "" /\ artifact.has_proba
                  /\ artifact.out[processed].raises = "predict_proba") =>
                  response = [success |-> FALSE, error |-> "predict_proba failed"]

\* C9 witness: a stage raised and predict returned the failure
C9_Witness ==
    /\ request.endpoint = "predict"
    /\ preprocess_text(request.text) # ""
    /\ artifact.out[preprocess_text(request.text)].raises = "predict"
    /\ response = [success |-> FALSE, error |-> "predict failed"]
    /\ calls.classifier = 2

\* C10: every negation word of the exception set that is a token of the
\* cleaned text is a word of the normalized output.
C10_NegationWordsSurvive ==
    (request.endpoint = "preprocess_text" /\ IsStr(request.text)) =>
        \A w \in EMOTION_WORDS :
            w \in Range(word_tokenize(CleanText(request.text.val)))
                => w \in Range(SplitWords(response.processed_text))

-----------------------------------------------------------------------------
(* Claims checked under SpecLedger *)

\* C1: after any sequence of recorded predictions and clear_history calls
\* the ledger holds min(n, 100) entries, n the number recorded since the
\* last clear, and they are the newest ones, most recent first.
C1_LedgerHoldsNewest ==
    /\ Len(prediction_history) = Min(drawn.seq, MaxHistory)
    /\ \A i \in 1..Len(prediction_history) :
          prediction_history[i].id =
              [epoch |-> drawn.epoch, seq |-> drawn.seq - i + 1]

\* C1 witness: 150 records after a clear leave the 100 newest, 51 to 150
C1_Witness ==
    /\ drawn = [epoch |-> 1, seq |-> 150]
    /\ Len(prediction_history) = 100
    /\ prediction_history[1].id.seq = 150
    /\ prediction_history[100].id.seq = 51

\* C4: a /predict request puts exactly one new entry at the front of the
\* ledger (the entry of its text and its result) if the prediction
\* succeeded and save_history is on, and leaves the ledger as it was in
\* every other case.
C4_PredictRecordsIffSuccessAndSave ==
    [][request'.endpoint = "/predict" =>
        LET old == prediction_history
            new == prediction_history'
            saved == /\ response'.body.success
                     /\ request'.data.save_history # JBool(FALSE)
        IN  IF saved
            THEN /\ Len(new) = Min(Len(old) + 1, MaxHistory)
                 /\ \A i \in 2..Len(new) : new[i] = old[i - 1]
                 /\ \A i \in 1..Len(old) : old[i].id # new[1].id
                 /\ new[1].original_text = JStr(StripOf(request'.data.text.val))
                 /\ new[1].emotion = response'.body.emotion
                 /\ new[1].confidence = response'.body.confidence
                 /\ new[1].emoji = response'.body.emoji
            ELSE new = old]_vars

\* C4 witness: a saved prediction on a full ledger
C4_Witness ==
    /\ request.endpoint = "/predict"
    /\ response.body.success
    /\ request.data.save_history = JBool(TRUE)
    /\ drawn.seq > MaxHistory
    /\ Len(prediction_history) = MaxHistory
    /\ prediction_history[1].id = drawn

\* C5: for every integer limit, get_history returns the first limit entries
\* of the ledger, limit clamped to 100: never more than limit entries and
\* never more than 100.
C5_HistoryReturnsFirstLimit ==
    (request.endpoint = "/history" /\ request.limit.kind = "int") =>
        LET limit == request.limit.value
            n == Min(Max(Min(limit, 100), 0), Len(prediction_history))
        IN  /\ response.body.history = SubSeq(prediction_history, 1, n)
            /\ Len(response.body.history) <= Max(limit, 0)
            /\ Len(response.body.history) <= 100
            /\ response.body.count = Len(response.body.history)

-----------------------------------------------------------------------------
(* Claims checked under SpecThreads *)

\* a thread that has inserted its entry and not yet finished truncating
InSection(t) == pc[t] \in {"check", "pop"}

\* C2: the insert and the truncate of one record call form one mutually
\* exclusive section: never two threads between their insert and their
\* truncate, and the ledger never above 100 entries outside that section
\* (101 inside it).
C2_RecordsSerialized ==
    /\ \A t, u \in Threads : (InSection(t) /\ InSection(u)) => t = u
    /\ Len(prediction_history)
          <= MaxHistory + (IF \E t \in Threads : InSection(t) THEN 1 ELSE 0)

-----------------------------------------------------------------------------
(* Claims checked under SpecBatch *)

\* what the artifact makes of one text, read off the artifact itself
ItemOutcome(text, result) ==
    LET processed == preprocess_text(text)
    IN  IF ~IsStr(text) \/ processed = ""
        THEN result = [success |-> FALSE, error |-> EmptyError]
        ELSE IF artifact.out[processed].raises = "transform"
        THEN result = [success |-> FALSE, error |-> "transform failed"]
        ELSE /\ artifact.out[processed].raises = "none"
             /\ result.success
             /\ result.emotion = artifact.out[processed].label
             /\ result.original_text = text
             /\ result.processed_text = processed

\* C3: a batch of n <= 50 texts gives n results, result i the outcome of
\* predict on text i, a failing item giving a failure at its own position;
\* a batch of more than 50 texts is rejected with no prediction made.
C3_BatchResultsInOrder ==
    (request.endpoint = "/predict/batch" /\ request.data.kind = "list") =>
        LET texts == request.data.texts
        IN  IF Len(texts) <= 50
            THEN /\ response.status = 200
                 /\ response.body.success
                 /\ response.body.count = Len(texts)
                 /\ Len(response.body.results) = Len(texts)
                 /\ \A i \in 1..Len(texts) :
                       ItemOutcome(texts[i], response.body.results[i])
                 /\ calls.predict = Len(texts)
            ELSE /\ response.status = 400
                 /\ ~response.body.success
                 /\ calls = NoCalls

\* C3 witness: a batch of 50 in which a failing item is followed by a
\* successful one, each at its own position
C3_Witness ==
    /\ request.endpoint = "/predict/batch"
    /\ Len(request.data.texts) = 50
    /\ response.status = 200
    /\ \E i, j \in 1..50 :
          /\ i < j
          /\ ~response.body.results[i].success
          /\ response.body.results[j].success
          /\ response.body.results[j].original_text = request.data.texts[j]
          /\ request.data.texts[j] # request.data.texts[50 + 1 - j]

-----------------------------------------------------------------------------
(* Claims checked under SpecAnalyze *)

\* the labels of the messages analyze_conversation counts, in input order,
\* read off the request and the artifact
RECURSIVE CountedLabels(_)
CountedLabels(messages) ==
    IF messages = <<>> THEN <<>>
    ELSE LET msg == Head(messages)
             processed == preprocess_text(msg.text)
         IN  (IF /\ msg.type = "object"
                 /\ IsStr(msg.text)
                 /\ processed # ""
                 /\ artifact.out[processed].raises = "none"
              THEN <<artifact.out[processed].label>> ELSE <<>>)
             \o CountedLabels(Tail(messages))

\* how often label l occurs among the first k counted labels
CountUpTo(labels, l, k) == Cardinality({i \in 1..k : labels[i] = l})

FinalMax(labels) ==
    CHOOSE m \in 0..Len(labels) :
        /\ \A l \in Range(labels) : CountUpTo(labels, l, Len(labels)) <= m
        /\ \E l \in Range(labels) : CountUpTo(labels, l, Len(labels)) = m

\* the label whose running count is the first to attain the final maximum
FirstToReachMax(labels) ==
    labels[CHOOSE k \in DOMAIN labels :
             /\ CountUpTo(labels, labels[k], k) = FinalMax(labels)
             /\ \A j \in 1..(k - 1) : CountUpTo(labels, labels[j], j) < FinalMax(labels)]

\* the position at which label l is counted for the first time
FirstSeen(labels, l) ==
    CHOOSE k \in DOMAIN labels :
        labels[k] = l /\ \A j \in 1..(k - 1) : labels[j] # l

AnalyzeSucceeded == request.endpoint = "/analyze" /\ response.status = 200

RECURSIVE SumValues(_)
SumValues(items) ==
    IF items = <<>> THEN 0 ELSE Head(items)[2] + SumValues(Tail(items))

\* C7: the three sentiment buckets partition the counted predictions:
\* their counts add up to total_messages, which is the sum of the
\* emotion_distribution counts; the percentages add up to 100 within
\* rounding when total_messages > 0 and are all 0 when it is 0.
C7_BucketsPartitionCounted ==
    AnalyzeSucceeded =>
        LET body == response.body
            summary == body.sentiment_summary
            percentages == summary.positive.percentage + summary.negative.percentage
                           + summary.neutral.percentage
        IN  /\ summary.positive.count + summary.negative.count + summary.neutral.count
                  = body.total_messages
            /\ body.total_messages = SumValues(body.emotion_distribution)
            /\ body.total_messages > 0 =>
                  (percentages >= 10000 - 2 /\ percentages <= 10000 + 2)
            /\ body.total_messages = 0 => percentages = 0

\* C8 as stated: dominant_emotion has the highest count and, on a tie, is
\* the label whose running count first attains the final maximum; with no
\* successful prediction it is "neutral" and the distribution is empty.
C8_DominantFirstToReachMax ==
    AnalyzeSucceeded =>
        LET labels == CountedLabels(request.data.messages)
            body == response.body
        IN  IF labels = <<>>
            THEN body.dominant_emotion = "neutral" /\ body.emotion_distribution = <<>>
            ELSE /\ CountUpTo(labels, body.dominant_emotion, Len(labels)) = FinalMax(labels)
                 /\ body.dominant_emotion = FirstToReachMax(labels)

\* C8 as amended: dominant_emotion has the highest count and, on a tie, is
\* the tied label that was counted first (first seen in input order); with
\* no successful prediction it is "neutral" and the distribution is empty.
C8_DominantFirstSeenAmongMax ==
    AnalyzeSucceeded =>
        LET labels == CountedLabels(request.data.messages)
            body == response.body
        IN  IF labels = <<>>
            THEN body.dominant_emotion = "neutral" /\ body.emotion_distribution = <<>>
            ELSE /\ body.dominant_emotion \in Range(labels)
                 /\ CountUpTo(labels, body.dominant_emotion, Len(labels)) = FinalMax(labels)
                 /\ \A l \in Range(labels) :
                       CountUpTo(labels, l, Len(labels)) = FinalMax(labels)
                           => FirstSeen(labels, body.dominant_emotion)
                                  <= FirstSeen(labels, l)

\* C8 witness: labels A, B, B, A are counted; B is the first to reach the
\* final maximum 2, A the first seen, and A is the dominant emotion
C8_Witness ==
    /\ AnalyzeSucceeded
    /\ LET labels == CountedLabels(request.data.messages)
       IN  /\ Len(labels) = 4
           /\ labels[1] = labels[4]
           /\ labels[2] = labels[3]
           /\ labels[1] # labels[2]
           /\ response.body.dominant_emotion = labels[1]
           /\ FirstToReachMax(labels) = labels[2]

====
